---- MODULE Spec2Model ----
(***************************************************************************)
(* Model of the sync core of the hub: the SyncEngine of                    *)
(* src/network/sync/syncEngine.ts together with the collaborators it       *)
(* drives (MerkleTrie, SyncId, the storage engine and the peer's RPC       *)
(* surface), which are modelled from the specification where their code    *)
(* is not part of the sources at hand.                                     *)
(***************************************************************************)
EXTENDS Integers, Sequences, FiniteSets, TLC

(***************************************************************************)
(* Program constants and bounds                                            *)
(***************************************************************************)
SYNC_THRESHOLD_IN_SECONDS == 10
HASHES_PER_FETCH == 50

\* Number of decimal digits of a timestamp inside a SyncId (10 in the hub).
TimestampDigits == 3
\* Number of 10-second snapshot intervals the clock may advance.
MaxTicks == 1
\* Number of storage mutations (gossip merges, deletes) the environment makes.
MaxEnvOps == 1
\* Capacity of the storage engine's event channel.
MaxEvents == 1
\* Number of performSync calls made over a behaviour.
MaxRounds == 2
\* Number of peer RPCs and storage calls that fail over a behaviour.
MaxFaults == 1
\* Depth down to which the peer reports subtrees larger than HASHES_PER_FETCH.
MaxBigDepth == 1

NoValue == <<>>

RECURSIVE Pow10(_)
Pow10(n) == IF n = 0 THEN 1 ELSE 10 * Pow10(n - 1)

\* First instant of the modelled clock: the smallest time with TimestampDigits digits.
StartTime == Pow10(TimestampDigits - 1)

(***************************************************************************)
(* Messages and SyncIds                                                    *)
(***************************************************************************)
Fids == {1}

\* The messages of the modelled network: for each user an old signer message, a
\* cast of the first snapshot interval and a cast of the next one.
AllMsgs ==
    UNION {{[fid |-> f, kind |-> "signer", ts |-> StartTime - 5, hash |-> 1],
            [fid |-> f, kind |-> "cast", ts |-> StartTime + 2, hash |-> 2],
            [fid |-> f, kind |-> "cast", ts |-> StartTime + 13, hash |-> 3]} : f \in Fids}

\* Number.toString(): the decimal digits of n, most significant first, no padding.
RECURSIVE ToDigits(_)
ToDigits(n) == IF n < 10 THEN <<n>> ELSE Append(ToDigits(n \div 10), n % 10)

\* The decimal digits of n, zero-padded on the left to width w.
RECURSIVE PadDigits(_, _)
PadDigits(n, w) == IF w = 0 THEN <<>> ELSE Append(PadDigits(n \div 10, w - 1), n % 10)

\* new SyncId(message): the zero-padded timestamp followed by the message hash.
SyncId(m) == Append(PadDigits(m.ts, TimestampDigits), 100 * m.fid + m.hash)

Prefix(s, n) == SubSeq(s, 1, n)
IsPrefixOf(p, s) == Len(p) <= Len(s) /\ Prefix(s, Len(p)) = p

(***************************************************************************)
(* TrieNode / MerkleTrie.  A trie is a function from the prefixes of its   *)
(* nodes to the nodes; a node holds its items count, its hash and its      *)
(* value.  The digest is modelled as collision free: the hash of a leaf is *)
(* the singleton of its value and the hash of an internal node combines    *)
(* the hashes of its children.                                             *)
(***************************************************************************)
EmptyHash == {}
EmptyNode == [items |-> 0, hash |-> EmptyHash, value |-> NoValue]
EmptyTrie == (<<>> :> EmptyNode)

ChildPrefixes(t, p) == {q \in DOMAIN t : Len(q) = Len(p) + 1 /\ Prefix(q, Len(p)) = p}

RECURSIVE SumItems(_, _)
SumItems(t, qs) ==
    IF qs = {} THEN 0
    ELSE LET q == CHOOSE x \in qs : TRUE IN t[q].items + SumItems(t, qs \ {q})

\* H(concat(child_byte || child.hash)) over the children in qs.
CombineHashes(t, qs) == UNION {t[q].hash : q \in qs}

\* TrieNode.recompute for the internal node at prefix p.
Recompute(t, p) ==
    [t EXCEPT ![p] = [items |-> SumItems(t, ChildPrefixes(t, p)),
                      hash |-> CombineHashes(t, ChildPrefixes(t, p)),
                      value |-> NoValue]]

\* An insert that recomputes a node only when it created the child it descended into.
RECURSIVE NodeInsertRecomputesNewOnly(_, _, _)
NodeInsertRecomputesNewOnly(t, id, index) ==
    LET p == Prefix(id, index) IN
    IF index = Len(id)
    THEN IF t[p].value = id
         THEN [trie |-> t, changed |-> FALSE]
         ELSE [trie |-> [t EXCEPT ![p] = [items |-> 1, hash |-> {id}, value |-> id]],
               changed |-> TRUE]
    ELSE LET q == Prefix(id, index + 1)
             t1 == IF q \in DOMAIN t THEN t ELSE t @@ (q :> EmptyNode)
             r == NodeInsertRecomputesNewOnly(t1, id, index + 1)
         IN IF r.changed /\ q \notin DOMAIN t
            THEN [trie |-> Recompute(r.trie, p), changed |-> TRUE]
            ELSE [trie |-> r.trie, changed |-> r.changed]

\* An insert that counts an id again when it is already at its leaf.
RECURSIVE NodeInsertNoDupCheck(_, _, _)
NodeInsertNoDupCheck(t, id, index) ==
    LET p == Prefix(id, index) IN
    IF index = Len(id)
    THEN [trie |-> [t EXCEPT ![p] = [items |-> @.items + 1, hash |-> {id}, value |-> id]],
          changed |-> TRUE]
    ELSE LET q == Prefix(id, index + 1)
             t1 == IF q \in DOMAIN t THEN t ELSE t @@ (q :> EmptyNode)
             r == NodeInsertNoDupCheck(t1, id, index + 1)
         IN [trie |-> Recompute(r.trie, p), changed |-> TRUE]

\* TrieNode.insert(id, index): the trie after the insert and whether id was new.
RECURSIVE NodeInsert(_, _, _)
NodeInsert(t, id, index) ==
    LET p == Prefix(id, index) IN
    IF index = Len(id)
    THEN IF t[p].value = id
         THEN [trie |-> t, changed |-> FALSE]
         ELSE [trie |-> [t EXCEPT ![p] = [items |-> 1, hash |-> {id}, value |-> id]],
               changed |-> TRUE]
    ELSE LET q == Prefix(id, index + 1)
             t1 == IF q \in DOMAIN t THEN t ELSE t @@ (q :> EmptyNode)
             r == NodeInsert(t1, id, index + 1)
         IN IF r.changed
            THEN [trie |-> Recompute(r.trie, p), changed |-> TRUE]
            ELSE [trie |-> r.trie, changed |-> FALSE]

\* A delete that prunes the child it descended into whether or not it is empty.
RECURSIVE NodeDeletePrunesAlways(_, _, _)
NodeDeletePrunesAlways(t, id, index) ==
    LET p == Prefix(id, index) IN
    IF index = Len(id)
    THEN IF t[p].value = id
         THEN [trie |-> [t EXCEPT ![p] = EmptyNode], changed |-> TRUE]
         ELSE [trie |-> t, changed |-> FALSE]
    ELSE LET q == Prefix(id, index + 1) IN
         IF q \notin DOMAIN t
         THEN [trie |-> t, changed |-> FALSE]
         ELSE LET r == NodeDeletePrunesAlways(t, id, index + 1) IN
              IF r.changed
              THEN LET pruned == [x \in {y \in DOMAIN r.trie : ~IsPrefixOf(q, y)} |-> r.trie[x]]
                   IN [trie |-> Recompute(pruned, p), changed |-> TRUE]
              ELSE [trie |-> t, changed |-> FALSE]

\* TrieNode.delete(id, index): the trie after the delete and whether id was present.
RECURSIVE NodeDelete(_, _, _)
NodeDelete(t, id, index) ==
    LET p == Prefix(id, index) IN
    IF index = Len(id)
    THEN IF t[p].value = id
         THEN [trie |-> [t EXCEPT ![p] = EmptyNode], changed |-> TRUE]
         ELSE [trie |-> t, changed |-> FALSE]
    ELSE LET q == Prefix(id, index + 1) IN
         IF q \notin DOMAIN t
         THEN [trie |-> t, changed |-> FALSE]
         ELSE LET r == NodeDelete(t, id, index + 1) IN
              IF r.changed
              THEN LET pruned == IF r.trie[q].items = 0
                                 THEN [x \in DOMAIN r.trie \ {q} |-> r.trie[x]]
                                 ELSE r.trie
                   IN [trie |-> Recompute(pruned, p), changed |-> TRUE]
              ELSE [trie |-> t, changed |-> FALSE]

\* MerkleTrie.insert / MerkleTrie.delete
TrieInsert(t, id) == NodeInsert(t, id, 0).trie
TrieDelete(t, id) == NodeDelete(t, id, 0).trie

\* SyncEngine.addMessage / SyncEngine.removeMessage
addMessage(t, m) == TrieInsert(t, SyncId(m))
removeMessage(t, m) == TrieDelete(t, SyncId(m))

\* TrieNode.getAllValues of the whole trie, as a set.
TrieIds(t) == {t[p].value : p \in {q \in DOMAIN t : t[q].value # NoValue}}

RECURSIVE TrieOf(_)
TrieOf(ms) ==
    IF ms = {} THEN EmptyTrie
    ELSE LET m == CHOOSE x \in ms : TRUE IN addMessage(TrieOf(ms \ {m}), m)

\* Ascending order of SyncIds (lexicographic, equal lengths).
RECURSIVE LexLess(_, _)
LexLess(a, b) ==
    IF a = <<>> \/ b = <<>> THEN FALSE
    ELSE IF Head(a) # Head(b) THEN Head(a) < Head(b)
    ELSE LexLess(Tail(a), Tail(b))

RECURSIVE SortIds(_)
SortIds(S) ==
    IF S = {} THEN <<>>
    ELSE LET lo == CHOOSE x \in S : \A y \in S \ {x} : LexLess(x, y)
         IN <<lo>> \o SortIds(S \ {lo})

\* TrieNode.getAllValues below prefix p: the values in ascending order.
getAllValues(t, p) == SortIds({id \in TrieIds(t) : IsPrefixOf(p, id)})

\* MerkleTrie.getSnapshot(prefix)
getSnapshot(t, prefix) ==
    [prefix |-> prefix,
     numMessages |-> IF prefix \in DOMAIN t THEN t[prefix].items ELSE 0,
     excludedHashes |->
        [i \in 1..Len(prefix) |->
            LET p == Prefix(prefix, i - 1) IN
            IF p \in DOMAIN t
            THEN CombineHashes(t, ChildPrefixes(t, p) \ {Prefix(prefix, i)})
            ELSE EmptyHash]]

Min(S) == CHOOSE x \in S : \A y \in S : x <= y

\* A comparison that stops one position late.
GetDivergencePrefixOneTooLong(t, ourPrefix, theirExcluded) ==
    LET ours == getSnapshot(t, ourPrefix).excludedHashes
        n == Min({Len(ours), Len(theirExcluded)})
        diff == {i \in 1..n : ours[i] # theirExcluded[i]}
    IN Prefix(ourPrefix, IF diff = {} THEN n ELSE Min(diff))

\* MerkleTrie.getDivergencePrefix(ourPrefix, theirExcludedHashes)
getDivergencePrefix(t, ourPrefix, theirExcluded) ==
    LET ours == getSnapshot(t, ourPrefix).excludedHashes
        n == Min({Len(ours), Len(theirExcluded)})
        diff == {i \in 1..n : ours[i] # theirExcluded[i]}
    IN Prefix(ourPrefix, IF diff = {} THEN n ELSE Min(diff) - 1)

\* The hash of an absent child (ourNode?.children?.get(char)?.hash is undefined).
UndefinedHash == {<<-1>>}

\* The children of MerkleTrie.getTrieNodeMetadata(prefix), each with its hash
\* (no children when the node is absent).
ChildHashes(t, p) == [q \in ChildPrefixes(t, p) |-> t[q].hash]

(***************************************************************************)
(* The engine's state                                                      *)
(***************************************************************************)
VARIABLES
    trie,        \* SyncEngine._trie
    isSyncing,   \* SyncEngine._isSyncing
    now,         \* Math.floor(Date.now() / 1000)
    store,       \* the messages held by the storage engine
    users,       \* the fids whose custody event the storage engine holds
    events,      \* messageMerged / messageDeleted events emitted and not yet handled
    initialized, \* "new", "running" or "done": the progress of initialize()
    visited,     \* the messages initialize() has streamed so far
    runs,        \* the performSync calls, by number
    peerMsgs,    \* the messages the peer holds
    peerTrie,    \* the peer's trie, holding the SyncIds of peerMsgs
    bigDepth,    \* the peer reports more than HASHES_PER_FETCH messages above this depth
    lastCall,    \* the latest shouldSync call: its input, the state it read, its result
    failedDeletes, \* the messages whose delete transaction failed after its event
    envOps,      \* storage mutations made by the environment so far
    faults,      \* peer RPCs and storage calls that have failed so far
    ticks        \* snapshot intervals elapsed

vars == <<trie, isSyncing, now, store, users, events, initialized, visited, runs,
          peerMsgs, peerTrie, bigDepth, lastCall, failedDeletes, envOps, faults, ticks>>

RunIds == 1..MaxRounds

\* SyncEngine.snapshotTimestamp
snapshotTimestamp == (now \div SYNC_THRESHOLD_IN_SECONDS) * SYNC_THRESHOLD_IN_SECONDS

\* The prefix of SyncEngine.snapshot: (snapshotTimestamp / 10).toString()
snapshotPrefix == ToDigits(snapshotTimestamp \div 10)

\* SyncEngine.snapshot
snapshot == getSnapshot(trie, snapshotPrefix)

\* shouldSync without its _isSyncing guard.
ShouldSyncNoGuard(excludedHashes) ==
    LET ourSnapshot == snapshot
        excludedHashesMatch ==
            /\ Len(ourSnapshot.excludedHashes) = Len(excludedHashes)
            /\ \A index \in 1..Len(ourSnapshot.excludedHashes) :
                  ourSnapshot.excludedHashes[index] = excludedHashes[index]
    IN ~excludedHashesMatch

\* shouldSync comparing only the positions both lists have.
ShouldSyncCommonPositions(excludedHashes) ==
    IF isSyncing THEN FALSE
    ELSE LET ourSnapshot == snapshot
             excludedHashesMatch ==
                 \A index \in 1..Min({Len(ourSnapshot.excludedHashes), Len(excludedHashes)}) :
                    ourSnapshot.excludedHashes[index] = excludedHashes[index]
         IN ~excludedHashesMatch

\* SyncEngine.shouldSync(excludedHashes)
shouldSync(excludedHashes) ==
    IF isSyncing THEN FALSE
    ELSE LET ourSnapshot == snapshot
             excludedHashesMatch ==
                 /\ Len(ourSnapshot.excludedHashes) = Len(excludedHashes)
                 /\ \A index \in 1..Len(ourSnapshot.excludedHashes) :
                       ourSnapshot.excludedHashes[index] = excludedHashes[index]
         IN ~excludedHashesMatch

(***************************************************************************)
(* The peer's RPC surface, answered from the peer's trie                   *)
(***************************************************************************)
\* getSyncMetadataByPrefix(prefix): the node's metadata; absent nodes are an error.
PeerMetadata(prefix) ==
    LET t == peerTrie IN
    [prefix |-> prefix,
     numMessages |-> t[prefix].items + (IF Len(prefix) < bigDepth THEN HASHES_PER_FETCH ELSE 0),
     hash |-> t[prefix].hash,
     children |-> ChildHashes(t, prefix)]

\* getSyncIdsByPrefix(prefix)
PeerIds(prefix) == getAllValues(peerTrie, prefix)

\* getMessagesByHashes(hashes): the peer's messages with these ids, in request order.
RECURSIVE PeerMessages(_)
PeerMessages(ids) ==
    IF ids = <<>> THEN <<>>
    ELSE LET found == {m \in peerMsgs : SyncId(m) = Head(ids)} IN
         (IF found = {} THEN <<>> ELSE <<CHOOSE m \in found : TRUE>>) \o PeerMessages(Tail(ids))

\* getAllSignerMessagesByUser(fid)
RECURSIVE SeqOfMsgs(_)
SeqOfMsgs(ms) ==
    IF ms = {} THEN <<>>
    ELSE LET lo == CHOOSE x \in ms : \A y \in ms \ {x} : LexLess(SyncId(x), SyncId(y))
         IN <<lo>> \o SeqOfMsgs(ms \ {lo})

PeerSigners(fid) == SeqOfMsgs({m \in peerMsgs : m.fid = fid /\ m.kind = "signer"})

\* The excludedHashes of the contact records the engine may receive: the peer's
\* snapshot of this interval, the same cut short by one, and our own (a peer in
\* step with us).
ExcludedInputs ==
    LET theirs == getSnapshot(peerTrie, snapshotPrefix).excludedHashes IN
    {theirs, Prefix(theirs, Len(theirs) - 1), snapshot.excludedHashes}

(***************************************************************************)
(* The storage engine                                                      *)
(***************************************************************************)
StoreIds(st) == {SyncId(m) : m \in st}

HasSigner(st, fid) == \E s \in st : s.fid = fid /\ s.kind = "signer"

\* Engine.mergeMessage(message, source) when the storage engine answers (o = "ok")
\* or fails on its own (o = "err"): the result's status, the store afterwards and
\* whether messageMerged was emitted.  Status 412 is "unknown_user".
mergeMessage(st, us, m, o) ==
    IF o = "err" THEN [status |-> "unavailable", store |-> st, emitted |-> FALSE]
    ELSE IF m.fid \notin us THEN [status |-> "unknown_user", store |-> st, emitted |-> FALSE]
    ELSE IF m \in st THEN [status |-> "duplicate", store |-> st, emitted |-> FALSE]
    ELSE IF m.kind = "cast" /\ ~HasSigner(st, m.fid)
         THEN [status |-> "invalid", store |-> st, emitted |-> FALSE]
    ELSE [status |-> "ok", store |-> st \cup {m}, emitted |-> TRUE]

\* Engine.mergeMessages(messages, source): the merges, in the order of the list.
RECURSIVE mergeMessages(_, _, _, _)
mergeMessages(st, us, ms, o) ==
    IF ms = <<>> THEN [statuses |-> <<>>, store |-> st, merged |-> <<>>]
    ELSE LET r == mergeMessage(st, us, Head(ms), o)
             rest == mergeMessages(r.store, us, Tail(ms), o)
         IN [statuses |-> <<r.status>> \o rest.statuses,
             store |-> rest.store,
             merged |-> (IF r.emitted THEN <<Head(ms)>> ELSE <<>>) \o rest.merged]

MergedEvent(m) == [type |-> "messageMerged", msg |-> m]
DeletedEvent(m) == [type |-> "messageDeleted", msg |-> m]

RECURSIVE MergedEvents(_)
MergedEvents(ms) == IF ms = <<>> THEN <<>> ELSE <<MergedEvent(Head(ms))>> \o MergedEvents(Tail(ms))

(***************************************************************************)
(* performSync: one record per call                                        *)
(***************************************************************************)
IdleRun ==
    [pc |-> "idle",        \* the await the call is suspended at, "idle" or "done"
     gated |-> FALSE,      \* started by a contact record for which shouldSync was true
     excluded |-> <<>>,    \* the excludedHashes argument
     prefix |-> <<>>,      \* ourSnapshot.prefix
     cur |-> <<>>,         \* the prefix of the metadata / ids request in flight
     ours |-> <<>>,        \* ourNode's children hashes, read when the request was made
     work |-> <<>>,        \* child prefixes the recursion has still to visit, in order
     missing |-> <<>>,     \* missingIds so far
     msgs |-> <<>>,        \* the messages returned by getMessagesByHashes
     idx |-> 0,            \* index of the message being merged
     results |-> <<>>,     \* mergeResults
     signers |-> <<>>,     \* the signer messages fetched for the message being retried
     exit |-> "none",      \* how the call left its try block: "ok" or "caught"
     failedAt |-> "none",  \* the await at which an exception was thrown
     raised |-> FALSE,     \* whether the call rejected (an error reached the caller)
     clean |-> TRUE,       \* no RPC failed and every merge ended ok or duplicate
     envAtStart |-> 0,     \* envOps when the call was made
     quietStart |-> FALSE, \* no event was pending and no other call was running then
     lost |-> {},          \* stored messages whose SyncId the trie lacked then
     traced |-> FALSE,     \* whether the transcript of the call is recorded
     calls |-> <<>>]       \* the transcript: the awaited calls and their answers

InProgress(r) == runs[r].pc \notin {"idle", "done"}
Running == {r \in RunIds : InProgress(r)}

\* A catch block that throws the error on.
CatchRethrows(e) == TRUE

\* The catch block: whether the caught error is thrown on to the caller.
catchBlock(e) == FALSE

\* A call that leaves _isSyncing as it is when it ends.
FlagLeftAsIs == isSyncing

\* The finally block: the value it leaves in _isSyncing.
finallyBlock == FALSE

Transient(rec) ==
    [rec EXCEPT !.cur = <<>>, !.ours = <<>>, !.work = <<>>, !.missing = <<>>,
                !.msgs = <<>>, !.idx = 0, !.signers = <<>>]

\* Leaving the try block normally ("Sync complete").
Complete(rec) ==
    [Transient(rec) EXCEPT !.pc = "done", !.exit = "ok",
                           !.results = IF rec.traced THEN @ ELSE <<>>]

\* An exception thrown at the await the call is suspended at.
Caught(rec) ==
    [Transient(rec) EXCEPT !.pc = "done", !.exit = "caught", !.failedAt = rec.pc,
                           !.results = IF rec.traced THEN @ ELSE <<>>,
                           !.raised = catchBlock(rec.pc), !.clean = FALSE]

\* fetchMissingHashesByPrefix(p) up to its await: reads our node, requests theirs.
StartFetch(rec, p) ==
    [rec EXCEPT !.pc = "meta", !.cur = p, !.ours = ChildHashes(trie, p)]

\* fetchAndMergeMessages(missingIds) up to its await.
StartMerge(rec) ==
    IF rec.missing = <<>> THEN Complete(rec) ELSE [rec EXCEPT !.pc = "msgs"]

\* What follows the return of one fetchMissingHashesByPrefix call: the next child
\* of the enclosing loops, or the merge of what was fetched.
Advance(rec) ==
    IF rec.work # <<>>
    THEN StartFetch([rec EXCEPT !.work = Tail(@)], Head(rec.work))
    ELSE StartMerge(rec)

\* A loop that gives up the batch at the first message that was not merged.
NextMessageStopsOnFailure(rec, result) ==
    LET rec1 == [rec EXCEPT !.results = Append(@, result), !.signers = <<>>,
                            !.clean = @ /\ result \in {"ok", "duplicate"}]
    IN IF rec.idx < Len(rec.msgs) /\ result \in {"ok", "duplicate"}
       THEN [rec1 EXCEPT !.idx = @ + 1, !.pc = "merge"]
       ELSE Complete(rec1)

\* A loop that passes over the message after the one just merged.
NextMessageSkipsOne(rec, result) ==
    LET rec1 == [rec EXCEPT !.results = Append(@, result), !.signers = <<>>,
                            !.clean = @ /\ result \in {"ok", "duplicate"}]
    IN IF rec.idx + 1 < Len(rec.msgs)
       THEN [rec1 EXCEPT !.idx = @ + 2, !.pc = "merge"]
       ELSE Complete(rec1)

\* The loop of fetchAndMergeMessages after the result for message idx.
NextMessage(rec, result) ==
    LET rec1 == [rec EXCEPT !.results = Append(@, result), !.signers = <<>>,
                            !.clean = @ /\ result \in {"ok", "duplicate"}]
    IN IF rec.idx < Len(rec.msgs)
       THEN [rec1 EXCEPT !.idx = @ + 1, !.pc = "merge"]
       ELSE Complete(rec1)

\* ourNode?.children?.get(char)?.hash
OurChildHash(ours, q) == IF q \in DOMAIN ours THEN ours[q] ELSE UndefinedHash

\* The flag after a step of call r that leaves it in state rec.
FlagAfter(rec) == IF rec.pc = "done" THEN finallyBlock ELSE isSyncing

Outcomes == {"ok", "err", "throw"}

(***************************************************************************)
(* Initial states: the engine constructed over a storage engine that may   *)
(* already hold messages, initialize() not yet called                      *)
(***************************************************************************)
\* The stores a hub can hold: a cast is stored only with its user's signer.
ValidStore(st) == \A m \in st : m.kind = "cast" => HasSigner(st, m.fid)

InitStores == {st \in SUBSET AllMsgs : ValidStore(st)}
PeerStores == {AllMsgs}

Init ==
    /\ trie = EmptyTrie
    /\ isSyncing = FALSE
    /\ now = StartTime + 5
    /\ store \in InitStores
    /\ users \in {us \in SUBSET Fids : {m.fid : m \in store} \subseteq us}
    /\ events = <<>>
    /\ initialized = "new"
    /\ visited = {}
    /\ runs = [r \in RunIds |-> IdleRun]
    /\ peerMsgs \in PeerStores
    /\ peerTrie = TrieOf(peerMsgs)
    /\ bigDepth \in 0..MaxBigDepth
    /\ lastCall = [made |-> FALSE, syncing |-> FALSE, differ |-> FALSE, result |-> FALSE]
    /\ failedDeletes = {}
    /\ envOps = 0
    /\ faults = 0
    /\ ticks = 0

(***************************************************************************)
(* initialize() and the event hooks                                        *)
(***************************************************************************)
\* One message streamed by engine.forEachMessage: its SyncId is inserted.
InitializeStep ==
    /\ initialized \in {"new", "running"}
    /\ \E m \in store \ visited :
          /\ trie' = addMessage(trie, m)
          /\ visited' = visited \cup {m}
    /\ initialized' = "running"
    /\ UNCHANGED <<isSyncing, now, store, users, events, runs, peerMsgs, peerTrie,
                   bigDepth, lastCall, failedDeletes, envOps, faults, ticks>>

\* The storage iteration completes.
InitializeDone ==
    /\ initialized \in {"new", "running"}
    /\ store \subseteq visited
    /\ initialized' = "done"
    /\ UNCHANGED <<trie, isSyncing, now, store, users, events, visited, runs, peerMsgs,
                   peerTrie, bigDepth, lastCall, failedDeletes, envOps, faults, ticks>>

\* Hooks of which only the messageMerged one is registered.
HandleEventMergedOnly(t, e) ==
    IF e.type = "messageMerged" THEN addMessage(t, e.msg) ELSE t

\* The hooks registered by the constructor, applied to one event.
handleEvent(t, e) ==
    IF e.type = "messageMerged" THEN addMessage(t, e.msg) ELSE removeMessage(t, e.msg)

\* The oldest pending event is delivered to its hook.
HandleEvent ==
    /\ events # <<>>
    /\ trie' = handleEvent(trie, Head(events))
    /\ events' = Tail(events)
    /\ UNCHANGED <<isSyncing, now, store, users, initialized, visited, runs, peerMsgs,
                   peerTrie, bigDepth, lastCall, failedDeletes, envOps, faults, ticks>>

(***************************************************************************)
(* The environment: gossip merges, deletes, the clock                      *)
(***************************************************************************)
\* A message received over gossip is merged by the storage engine.
GossipMerge(m) ==
    /\ envOps < MaxEnvOps
    /\ Len(events) < MaxEvents
    /\ mergeMessage(store, users, m, "ok").status = "ok"
    /\ store' = store \cup {m}
    /\ events' = Append(events, MergedEvent(m))
    /\ envOps' = envOps + 1
    /\ UNCHANGED <<trie, isSyncing, now, users, initialized, visited, runs, peerMsgs,
                   peerTrie, bigDepth, lastCall, failedDeletes, faults, ticks>>

\* The storage engine deletes a message no stored message depends on: the
\* messageDeleted event is emitted whether the transaction commits or fails.
DeleteMessage(m, committed) ==
    /\ envOps < MaxEnvOps
    /\ Len(events) < MaxEvents
    /\ m \in store
    /\ ValidStore(store \ {m})
    /\ store' = IF committed THEN store \ {m} ELSE store
    /\ failedDeletes' = IF committed THEN failedDeletes ELSE failedDeletes \cup {m}
    /\ events' = Append(events, DeletedEvent(m))
    /\ envOps' = envOps + 1
    /\ UNCHANGED <<trie, isSyncing, now, users, initialized, visited, runs, peerMsgs,
                   peerTrie, bigDepth, lastCall, faults, ticks>>

\* The clock passes into the next snapshot interval.
Tick ==
    /\ ticks < MaxTicks
    /\ now' = now + SYNC_THRESHOLD_IN_SECONDS
    /\ ticks' = ticks + 1
    /\ UNCHANGED <<trie, isSyncing, store, users, events, initialized, visited, runs,
                   peerMsgs, peerTrie, bigDepth, lastCall, failedDeletes, envOps, faults>>

(***************************************************************************)
(* shouldSync and the start of performSync                                 *)
(***************************************************************************)
\* The first call not yet made.
FreeRuns == {r \in RunIds : runs[r].pc = "idle" /\ \A q \in 1..(r - 1) : runs[q].pc # "idle"}

\* performSync(excludedHashes, rpcClient) up to its first await.
performSync(excludedHashes, gated) ==
    LET ourSnapshot == snapshot
        divergencePrefix == getDivergencePrefix(trie, ourSnapshot.prefix, excludedHashes)
    IN StartFetch([IdleRun EXCEPT !.gated = gated,
                                  !.excluded = excludedHashes,
                                  !.prefix = ourSnapshot.prefix,
                                  !.envAtStart = envOps,
                                  !.quietStart = (events = <<>> /\ Running = {}),
                                  !.lost = {m \in store : SyncId(m) \notin TrieIds(trie)}],
                  divergencePrefix)

\* A contact record arrives: the receiver asks shouldSync and, when it answers
\* true, starts performSync with the record's excludedHashes.
ContactInfo(excludedHashes) ==
    /\ initialized = "done"
    /\ LET result == shouldSync(excludedHashes) IN
       /\ lastCall' = [made |-> TRUE, syncing |-> isSyncing,
                       differ |-> (snapshot.excludedHashes # excludedHashes),
                       result |-> result]
       /\ IF result
          THEN /\ \E r \in FreeRuns :
                     runs' = [runs EXCEPT ![r] = [performSync(excludedHashes, TRUE)
                                                     EXCEPT !.traced = runs[r].traced]]
               /\ isSyncing' = TRUE
          ELSE UNCHANGED <<runs, isSyncing>>
    /\ UNCHANGED <<trie, now, store, users, events, initialized, visited, peerMsgs,
                   peerTrie, bigDepth, failedDeletes, envOps, faults, ticks>>

\* performSync called directly, without asking shouldSync.
PerformSync(excludedHashes) ==
    /\ initialized = "done"
    /\ \E r \in FreeRuns :
          runs' = [runs EXCEPT ![r] = [performSync(excludedHashes, FALSE)
                                          EXCEPT !.traced = runs[r].traced]]
    /\ isSyncing' = TRUE
    /\ UNCHANGED <<trie, now, store, users, events, initialized, visited, peerMsgs,
                   peerTrie, bigDepth, lastCall, failedDeletes, envOps, faults, ticks>>

(***************************************************************************)
(* The awaits of performSync: each action is the arrival of one answer and *)
(* the code that runs until the next await                                 *)
(***************************************************************************)
\* The argument of the call a performSync call is suspended at.
Argument(rec) ==
    CASE rec.pc \in {"meta", "ids"} -> rec.cur
      [] rec.pc = "msgs" -> rec.missing
      [] rec.pc \in {"merge", "retry"} -> rec.msgs[rec.idx]
      [] rec.pc \in {"custody", "idRegistry", "signers"} -> rec.msgs[rec.idx].fid
      [] rec.pc = "mergeSigners" -> rec.signers

\* The status of the result(s) of a storage merge the call is suspended at.
MergeStatus(rec, o) ==
    IF o = "throw" THEN "none"
    ELSE CASE rec.pc \in {"merge", "retry"} ->
                 mergeMessage(store, users, rec.msgs[rec.idx], o).status
           [] rec.pc = "mergeSigners" ->
                 (LET st == mergeMessages(store, users, rec.signers, o).statuses
                  IN IF \A i \in 1..Len(st) : st[i] # "ok" THEN "all_failed" ELSE "some_ok")
           [] OTHER -> "none"

\* The record after a step, with the answered call added to its transcript.
Logged(before, o, after) ==
    IF after.traced
    THEN [after EXCEPT !.calls = Append(@, [op |-> before.pc,
                                            arg |-> Argument(before),
                                            ours |-> before.ours,
                                            out |-> o,
                                            status |-> MergeStatus(before, o)])]
    ELSE after

RunStep(r, o, rec) ==
    /\ o = "ok" \/ faults < MaxFaults
    /\ faults' = IF o = "ok" THEN faults ELSE faults + 1
    /\ runs' = [runs EXCEPT ![r] = Logged(runs[r], o, rec)]
    /\ isSyncing' = FlagAfter(rec)

\* A walk that, at a node of many messages, asks for the same node again instead
\* of its children.
FetchRevisitsNode(rec, theirNode) ==
    IF theirNode.numMessages <= HASHES_PER_FETCH
    THEN [rec EXCEPT !.pc = "ids", !.cur = theirNode.prefix]
    ELSE StartFetch(rec, theirNode.prefix)

\* A walk that never asks for the ids of a node and always descends.
FetchAlwaysDescends(rec, theirNode) ==
    LET differing == {q \in DOMAIN theirNode.children :
                         OurChildHash(rec.ours, q) # theirNode.children[q]}
    IN Advance([rec EXCEPT !.work = SortIds(differing) \o @])

\* A walk that descends into every child of a node of many messages.
FetchEveryChild(rec, theirNode) ==
    IF theirNode.numMessages <= HASHES_PER_FETCH
    THEN [rec EXCEPT !.pc = "ids", !.cur = theirNode.prefix]
    ELSE Advance([rec EXCEPT !.work = SortIds(DOMAIN theirNode.children) \o @])

\* A walk that leaves the loop over the children after the first differing one.
FetchFirstChildOnly(rec, theirNode) ==
    IF theirNode.numMessages <= HASHES_PER_FETCH
    THEN [rec EXCEPT !.pc = "ids", !.cur = theirNode.prefix]
    ELSE LET differing == SortIds({q \in DOMAIN theirNode.children :
                                      OurChildHash(rec.ours, q) # theirNode.children[q]})
         IN Advance([rec EXCEPT !.work = (IF differing = <<>> THEN <<>> ELSE <<Head(differing)>>) \o @])

\* fetchMissingHashesByNode(theirNode, ourNode) up to its await or its return.
fetchMissingHashesByNode(rec, theirNode) ==
    IF theirNode.numMessages <= HASHES_PER_FETCH
    THEN [rec EXCEPT !.pc = "ids", !.cur = theirNode.prefix]
    ELSE LET differing == {q \in DOMAIN theirNode.children :
                              OurChildHash(rec.ours, q) # theirNode.children[q]}
         IN Advance([rec EXCEPT !.work = SortIds(differing) \o @])

\* A walk that a failed metadata request ends: the children still waiting in the
\* enclosing loops are dropped.
MetadataResponseAbortsWalk(r, o) ==
    /\ runs[r].pc = "meta"
    /\ LET rec == runs[r] IN
       RunStep(r, o, IF o = "throw" THEN Caught(rec)
                  ELSE IF o = "err" \/ rec.cur \notin DOMAIN peerTrie
                       THEN StartMerge([rec EXCEPT !.clean = FALSE, !.work = <<>>])
                  ELSE fetchMissingHashesByNode(rec, PeerMetadata(rec.cur)))
    /\ UNCHANGED <<trie, now, store, users, events, initialized, visited, peerMsgs,
                   peerTrie, bigDepth, lastCall, failedDeletes, envOps, ticks>>

\* The answer to getSyncMetadataByPrefix(cur).
MetadataResponse(r, o) ==
    /\ runs[r].pc = "meta"
    /\ LET rec == runs[r] IN
       RunStep(r, o, IF o = "throw" THEN Caught(rec)
                  ELSE IF o = "err" \/ rec.cur \notin DOMAIN peerTrie
                       THEN Advance([rec EXCEPT !.clean = FALSE])
                  ELSE fetchMissingHashesByNode(rec, PeerMetadata(rec.cur)))
    /\ UNCHANGED <<trie, now, store, users, events, initialized, visited, peerMsgs,
                   peerTrie, bigDepth, lastCall, failedDeletes, envOps, ticks>>

\* The answer to getSyncIdsByPrefix(cur).
IdsResponse(r, o) ==
    /\ runs[r].pc = "ids"
    /\ LET rec == runs[r] IN
       RunStep(r, o, IF o = "throw" THEN Caught(rec)
                  ELSE IF o = "err" THEN Advance([rec EXCEPT !.clean = FALSE])
                  ELSE Advance([rec EXCEPT !.missing = @ \o PeerIds(rec.cur)]))
    /\ UNCHANGED <<trie, now, store, users, events, initialized, visited, peerMsgs,
                   peerTrie, bigDepth, lastCall, failedDeletes, envOps, ticks>>

\* The answer to getMessagesByHashes(missingIds).
MessagesResponse(r, o) ==
    /\ runs[r].pc = "msgs"
    /\ LET rec == runs[r]
           msgs == PeerMessages(rec.missing)
       IN RunStep(r, o, IF o = "throw" THEN Caught(rec)
                     ELSE IF o = "err" THEN Complete([rec EXCEPT !.clean = FALSE])
                     ELSE IF msgs = <<>> THEN Complete(rec)
                     ELSE [rec EXCEPT !.msgs = msgs, !.idx = 1, !.pc = "merge"])
    /\ UNCHANGED <<trie, now, store, users, events, initialized, visited, peerMsgs,
                   peerTrie, bigDepth, lastCall, failedDeletes, envOps, ticks>>

\* The result of engine.mergeMessage(msg, 'SyncEngine') in the loop.
MergeResponse(r, o) ==
    /\ runs[r].pc = "merge"
    /\ Len(events) < MaxEvents
    /\ LET rec == runs[r]
           msg == rec.msgs[rec.idx]
           result == mergeMessage(store, users, msg, o)
       IN IF o = "throw"
          THEN RunStep(r, o, Caught(rec)) /\ UNCHANGED <<store, events>>
          ELSE /\ store' = result.store
               /\ events' = IF result.emitted THEN Append(events, MergedEvent(msg)) ELSE events
               /\ RunStep(r, o, IF result.status = "unknown_user"
                             THEN [rec EXCEPT !.pc = "custody"]
                             ELSE NextMessage(rec, result.status))
    /\ UNCHANGED <<trie, now, users, initialized, visited, peerMsgs, peerTrie, bigDepth,
                   lastCall, failedDeletes, envOps, ticks>>

\* A recovery that does not merge the custody event it fetched.
CustodyResponseSkipsRegistry(r, o) ==
    /\ runs[r].pc = "custody"
    /\ LET rec == runs[r] IN
       RunStep(r, o, IF o = "throw" THEN Caught(rec)
                  ELSE IF o = "err" THEN NextMessage(rec, "network_failure")
                  ELSE [rec EXCEPT !.pc = "signers"])
    /\ UNCHANGED <<trie, now, store, users, events, initialized, visited, peerMsgs,
                   peerTrie, bigDepth, lastCall, failedDeletes, envOps, ticks>>

\* A recovery that goes on to the storage merges after a failed custody fetch.
CustodyResponseIgnoresFailure(r, o) ==
    /\ runs[r].pc = "custody"
    /\ LET rec == runs[r] IN
       RunStep(r, o, IF o = "throw" THEN Caught(rec)
                  ELSE [rec EXCEPT !.pc = "idRegistry"])
    /\ UNCHANGED <<trie, now, store, users, events, initialized, visited, peerMsgs,
                   peerTrie, bigDepth, lastCall, failedDeletes, envOps, ticks>>

\* syncUserAndRetryMessage: the answer to getCustodyEventByUser(fid).
CustodyResponse(r, o) ==
    /\ runs[r].pc = "custody"
    /\ LET rec == runs[r] IN
       RunStep(r, o, IF o = "throw" THEN Caught(rec)
                  ELSE IF o = "err" THEN NextMessage(rec, "network_failure")
                  ELSE [rec EXCEPT !.pc = "idRegistry"])
    /\ UNCHANGED <<trie, now, store, users, events, initialized, visited, peerMsgs,
                   peerTrie, bigDepth, lastCall, failedDeletes, envOps, ticks>>

\* syncUserAndRetryMessage: the result of engine.mergeIdRegistryEvent, which the
\* code does not look at; then getAllSignerMessagesByUser(fid) is requested.
IdRegistryResponse(r, o) ==
    /\ runs[r].pc = "idRegistry"
    /\ LET rec == runs[r]
           fid == rec.msgs[rec.idx].fid
       IN IF o = "throw"
          THEN RunStep(r, o, Caught(rec)) /\ UNCHANGED users
          ELSE /\ users' = IF o = "ok" THEN users \cup {fid} ELSE users
               /\ RunStep(r, o, [rec EXCEPT !.pc = "signers"])
    /\ UNCHANGED <<trie, now, store, events, initialized, visited, peerMsgs, peerTrie,
                   bigDepth, lastCall, failedDeletes, envOps, ticks>>

\* syncUserAndRetryMessage: the answer to getAllSignerMessagesByUser(fid).
SignersResponse(r, o) ==
    /\ runs[r].pc = "signers"
    /\ LET rec == runs[r]
           fid == rec.msgs[rec.idx].fid
       IN RunStep(r, o, IF o = "throw" THEN Caught(rec)
                     ELSE IF o = "err" THEN NextMessage(rec, "network_failure")
                     ELSE [rec EXCEPT !.pc = "mergeSigners", !.signers = PeerSigners(fid)])
    /\ UNCHANGED <<trie, now, store, users, events, initialized, visited, peerMsgs,
                   peerTrie, bigDepth, lastCall, failedDeletes, envOps, ticks>>

\* A recovery that retries the original message whatever the signer merges gave.
MergeSignersAlwaysRetries(r, o) ==
    /\ runs[r].pc = "mergeSigners"
    /\ Len(events) + Len(runs[r].signers) <= MaxEvents
    /\ LET rec == runs[r]
           results == mergeMessages(store, users, rec.signers, o)
       IN IF o = "throw"
          THEN RunStep(r, o, Caught(rec)) /\ UNCHANGED <<store, events>>
          ELSE /\ store' = results.store
               /\ events' = events \o MergedEvents(results.merged)
               /\ RunStep(r, o, [rec EXCEPT !.pc = "retry"])
    /\ UNCHANGED <<trie, now, users, initialized, visited, peerMsgs, peerTrie, bigDepth,
                   lastCall, failedDeletes, envOps, ticks>>

\* syncUserAndRetryMessage: Promise.all over engine.mergeMessages(signers).
MergeSignersResponse(r, o) ==
    /\ runs[r].pc = "mergeSigners"
    /\ Len(events) + Len(runs[r].signers) <= MaxEvents
    /\ LET rec == runs[r]
           results == mergeMessages(store, users, rec.signers, o)
       IN IF o = "throw"
          THEN RunStep(r, o, Caught(rec)) /\ UNCHANGED <<store, events>>
          ELSE /\ store' = results.store
               /\ events' = events \o MergedEvents(results.merged)
               /\ RunStep(r, o, IF \A i \in 1..Len(results.statuses) : results.statuses[i] # "ok"
                             THEN NextMessage(rec, "storage_failure")
                             ELSE [rec EXCEPT !.pc = "retry"])
    /\ UNCHANGED <<trie, now, users, initialized, visited, peerMsgs, peerTrie, bigDepth,
                   lastCall, failedDeletes, envOps, ticks>>

\* syncUserAndRetryMessage: the result of the retried engine.mergeMessage(message).
RetryResponse(r, o) ==
    /\ runs[r].pc = "retry"
    /\ Len(events) < MaxEvents
    /\ LET rec == runs[r]
           msg == rec.msgs[rec.idx]
           result == mergeMessage(store, users, msg, o)
       IN IF o = "throw"
          THEN RunStep(r, o, Caught(rec)) /\ UNCHANGED <<store, events>>
          ELSE /\ store' = result.store
               /\ events' = IF result.emitted THEN Append(events, MergedEvent(msg)) ELSE events
               /\ RunStep(r, o, NextMessage(rec, IF result.status = "ok" THEN "ok"
                                               ELSE "storage_failure"))
    /\ UNCHANGED <<trie, now, users, initialized, visited, peerMsgs, peerTrie, bigDepth,
                   lastCall, failedDeletes, envOps, ticks>>

Next ==
    \/ InitializeStep
    \/ InitializeDone
    \/ HandleEvent
    \/ \E m \in AllMsgs : GossipMerge(m)
    \/ \E m \in AllMsgs, committed \in BOOLEAN : DeleteMessage(m, committed)
    \/ Tick
    \/ \E h \in ExcludedInputs : ContactInfo(h)
    \/ \E h \in ExcludedInputs : PerformSync(h)
    \/ \E r \in RunIds, o \in Outcomes : MetadataResponse(r, o)
    \/ \E r \in RunIds, o \in Outcomes : IdsResponse(r, o)
    \/ \E r \in RunIds, o \in Outcomes : MessagesResponse(r, o)
    \/ \E r \in RunIds, o \in Outcomes : MergeResponse(r, o)
    \/ \E r \in RunIds, o \in Outcomes : CustodyResponse(r, o)
    \/ \E r \in RunIds, o \in Outcomes : IdRegistryResponse(r, o)
    \/ \E r \in RunIds, o \in Outcomes : SignersResponse(r, o)
    \/ \E r \in RunIds, o \in Outcomes : MergeSignersResponse(r, o)
    \/ \E r \in RunIds, o \in Outcomes : RetryResponse(r, o)

Spec == Init /\ [][Next]_vars

(***************************************************************************)
(* The engine with its calls made one after the other: performSync is      *)
(* called only when no call is in progress, in any environment             *)
(***************************************************************************)
NextRounds ==
    \/ InitializeStep
    \/ InitializeDone
    \/ HandleEvent
    \/ \E m \in AllMsgs : GossipMerge(m)
    \/ \E m \in AllMsgs, committed \in BOOLEAN : DeleteMessage(m, committed)
    \/ Running = {} /\ Tick
    \/ \E h \in ExcludedInputs : Running = {} /\ PerformSync(h)
    \/ \E r \in RunIds, o \in Outcomes : MetadataResponse(r, o)
    \/ \E r \in RunIds, o \in Outcomes : IdsResponse(r, o)
    \/ \E r \in RunIds, o \in Outcomes : MessagesResponse(r, o)
    \/ \E r \in RunIds, o \in Outcomes : MergeResponse(r, o)
    \/ \E r \in RunIds, o \in Outcomes : CustodyResponse(r, o)
    \/ \E r \in RunIds, o \in Outcomes : IdRegistryResponse(r, o)
    \/ \E r \in RunIds, o \in Outcomes : SignersResponse(r, o)
    \/ \E r \in RunIds, o \in Outcomes : MergeSignersResponse(r, o)
    \/ \E r \in RunIds, o \in Outcomes : RetryResponse(r, o)

SpecRounds == Init /\ [][NextRounds]_vars

(***************************************************************************)
(* The initialized engine under overlapping calls: contact records and     *)
(* direct performSync calls arrive at any time, also while a call is       *)
(* suspended; the environment makes no storage mutation of its own         *)
(***************************************************************************)
InitSynced ==
    /\ store \in {st \in InitStores : Cardinality(st) < Cardinality(AllMsgs) - 1}
    /\ trie = TrieOf(store)
    /\ isSyncing = FALSE
    /\ now = StartTime + 5
    /\ users \in {us \in SUBSET Fids : {m.fid : m \in store} \subseteq us}
    /\ events = <<>>
    /\ initialized = "done"
    /\ visited = store
    /\ runs = [r \in RunIds |-> IdleRun]
    /\ peerMsgs \in PeerStores
    /\ peerTrie = TrieOf(peerMsgs)
    /\ bigDepth = 0
    /\ lastCall = [made |-> FALSE, syncing |-> FALSE, differ |-> FALSE, result |-> FALSE]
    /\ failedDeletes = {}
    /\ envOps = 0
    /\ faults = 0
    /\ ticks = 0

NextOverlap ==
    \/ HandleEvent
    \/ \E h \in ExcludedInputs : ContactInfo(h)
    \/ \E h \in ExcludedInputs : PerformSync(h)
    \/ \E r \in RunIds, o \in Outcomes : MetadataResponse(r, o)
    \/ \E r \in RunIds, o \in Outcomes : IdsResponse(r, o)
    \/ \E r \in RunIds, o \in Outcomes : MessagesResponse(r, o)
    \/ \E r \in RunIds, o \in Outcomes : MergeResponse(r, o)
    \/ \E r \in RunIds, o \in Outcomes : CustodyResponse(r, o)
    \/ \E r \in RunIds, o \in Outcomes : IdRegistryResponse(r, o)
    \/ \E r \in RunIds, o \in Outcomes : SignersResponse(r, o)
    \/ \E r \in RunIds, o \in Outcomes : MergeSignersResponse(r, o)
    \/ \E r \in RunIds, o \in Outcomes : RetryResponse(r, o)

SpecOverlap == InitSynced /\ [][NextOverlap]_vars

(***************************************************************************)
(* The storage engine and the hooks alone: no reconciliation               *)
(***************************************************************************)
NextStore ==
    \/ InitializeStep
    \/ InitializeDone
    \/ HandleEvent
    \/ \E m \in AllMsgs : GossipMerge(m)
    \/ \E m \in AllMsgs, committed \in BOOLEAN : DeleteMessage(m, committed)
    \/ Tick

SpecStore == Init /\ [][NextStore]_vars

(***************************************************************************)
(* performSync calls followed one at a time on the initialized engine,     *)
(* their transcripts recorded; the peer reports nodes of up to two levels  *)
(* as holding more than HASHES_PER_FETCH messages                          *)
(***************************************************************************)
InitRun ==
    /\ store \in InitStores
    /\ trie = TrieOf(store)
    /\ isSyncing = FALSE
    /\ now = StartTime + 5
    /\ users \in {us \in SUBSET Fids : {m.fid : m \in store} \subseteq us}
    /\ events = <<>>
    /\ initialized = "done"
    /\ visited = store
    /\ runs = [r \in RunIds |-> [IdleRun EXCEPT !.traced = TRUE]]
    /\ peerMsgs \in PeerStores
    /\ peerTrie = TrieOf(peerMsgs)
    /\ bigDepth \in 0..(MaxBigDepth + 1)
    /\ lastCall = [made |-> FALSE, syncing |-> FALSE, differ |-> FALSE, result |-> FALSE]
    /\ failedDeletes = {}
    /\ envOps = 0
    /\ faults = 0
    /\ ticks = 0

NextRun ==
    \/ HandleEvent
    \/ \E h \in ExcludedInputs : Running = {} /\ PerformSync(h)
    \/ \E r \in RunIds, o \in Outcomes : MetadataResponse(r, o)
    \/ \E r \in RunIds, o \in Outcomes : IdsResponse(r, o)
    \/ \E r \in RunIds, o \in Outcomes : MessagesResponse(r, o)
    \/ \E r \in RunIds, o \in Outcomes : MergeResponse(r, o)
    \/ \E r \in RunIds, o \in Outcomes : CustodyResponse(r, o)
    \/ \E r \in RunIds, o \in Outcomes : IdRegistryResponse(r, o)
    \/ \E r \in RunIds, o \in Outcomes : SignersResponse(r, o)
    \/ \E r \in RunIds, o \in Outcomes : MergeSignersResponse(r, o)
    \/ \E r \in RunIds, o \in Outcomes : RetryResponse(r, o)

SpecRun == InitRun /\ [][NextRun]_vars

(***************************************************************************)
(* Termination: performSync calls, one at a time, against a peer whose     *)
(* trie reports nodes of many messages down to any level above the leaves; *)
(* every call that is awaited is eventually answered and every emitted     *)
(* event is eventually delivered to its hook                               *)
(***************************************************************************)
\* |SyncId|: the timestamp digits and the hash.
IdLength == TimestampDigits + 1

InitLive ==
    /\ store \in InitStores
    /\ trie = TrieOf(store)
    /\ isSyncing = FALSE
    /\ now = StartTime + 5
    /\ users \in {us \in SUBSET Fids : {m.fid : m \in store} \subseteq us}
    /\ events = <<>>
    /\ initialized = "done"
    /\ visited = store
    /\ runs = [r \in RunIds |-> IdleRun]
    /\ peerMsgs \in PeerStores
    /\ peerTrie = TrieOf(peerMsgs)
    /\ bigDepth \in 0..IdLength
    /\ lastCall = [made |-> FALSE, syncing |-> FALSE, differ |-> FALSE, result |-> FALSE]
    /\ failedDeletes = {}
    /\ envOps = 0
    /\ faults = 0
    /\ ticks = 0

\* The answer to whatever call r is awaiting.
Response(r) ==
    \E o \in Outcomes :
        \/ MetadataResponse(r, o)
        \/ IdsResponse(r, o)
        \/ MessagesResponse(r, o)
        \/ MergeResponse(r, o)
        \/ CustodyResponse(r, o)
        \/ IdRegistryResponse(r, o)
        \/ SignersResponse(r, o)
        \/ MergeSignersResponse(r, o)
        \/ RetryResponse(r, o)

\* The step HandleEvent takes, told by what it does to the pending events: no
\* other action removes one.
Deliver == events # <<>> /\ events' = Tail(events)

NextLive ==
    \/ HandleEvent
    \/ \E h \in ExcludedInputs : Running = {} /\ PerformSync(h)
    \/ \E r \in RunIds : Response(r)

SpecLive ==
    /\ InitLive
    /\ [][NextLive]_vars
    /\ WF_events(Deliver)
    /\ \A r \in RunIds : WF_vars(Response(r))

(***************************************************************************)
(* Claims                                                                  *)
(***************************************************************************)
Started == {r \in RunIds : runs[r].pc # "idle"}

\* C1: the step in which a performSync call ends, whatever ended it (a normal
\* return, an error result or an exception thrown by an RPC or a merge), leaves
\* isSyncing false.
C1_FlagClearedOnExit ==
    [][\A r \in RunIds :
          (runs[r].pc # "done" /\ runs'[r].pc = "done") => isSyncing' = FALSE]_vars

\* A call ended by an exception thrown by a storage merge, the flag cleared.
C1_Witness ==
    \E r \in RunIds :
        /\ runs[r].pc = "done"
        /\ runs[r].exit = "caught"
        /\ runs[r].failedAt = "merge"
        /\ ~isSyncing

\* C2: isSyncing is true in every state in which some performSync call has
\* started and not yet ended, under any interleaving of calls.
C2_FlagWhileRunning == Running # {} => isSyncing

\* C3: when every performSync call was started for a contact record for which
\* shouldSync returned true, at most one call is in progress at any time.
C3_NoOverlapWhenGated ==
    (\A r \in Started : runs[r].gated) => Cardinality(Running) <= 1

\* A call started through shouldSync is in progress, and a later contact record
\* whose hashes differ from ours was turned down.
C3_Witness ==
    /\ Running # {}
    /\ \A r \in Started : runs[r].gated
    /\ lastCall.made /\ lastCall.syncing /\ lastCall.differ /\ ~lastCall.result

\* C4: shouldSync(theirExcludedHashes) returns true exactly when isSyncing is
\* false and our snapshot's excludedHashes differ from theirExcludedHashes; in
\* particular it returns false while isSyncing is true.
C4_ShouldSyncResult ==
    lastCall.made => (lastCall.result <=> (~lastCall.syncing /\ lastCall.differ))

\* shouldSync answered true: the engine was not syncing and the lists differed.
C4_Witness == lastCall.made /\ ~lastCall.syncing /\ lastCall.differ /\ lastCall.result

\* C5: a performSync call that has ended has not thrown to its caller, whatever
\* failed inside it.
C5_NeverRethrows == \A r \in RunIds : runs[r].pc = "done" => ~runs[r].raised

\* A call ended by an exception thrown by a peer RPC, returned normally.
C5_Witness ==
    \E r \in RunIds :
        /\ runs[r].pc = "done"
        /\ runs[r].failedAt \in {"meta", "ids", "msgs", "custody", "signers"}
        /\ ~runs[r].raised

\* C6: once initialize has completed and every emitted event has been handled,
\* the SyncIds in the trie are exactly the SyncIds of the stored messages.
C6_TrieEqualsStore ==
    (initialized = "done" /\ events = <<>>) => TrieIds(trie) = StoreIds(store)

\* C6 as it holds: once initialize has completed and every emitted event has
\* been handled, every SyncId in the trie is the SyncId of a stored message, and
\* a stored message whose SyncId the trie lacks is one whose delete transaction
\* failed after its messageDeleted event was emitted.
C6_TrieWithinStore ==
    (initialized = "done" /\ events = <<>>) =>
        /\ TrieIds(trie) \subseteq StoreIds(store)
        /\ StoreIds(store) \ TrieIds(trie) \subseteq StoreIds(failedDeletes)

\* All events handled after a delete whose transaction failed: the message is
\* stored and its SyncId is not in the trie.
C6_Witness ==
    /\ initialized = "done"
    /\ events = <<>>
    /\ failedDeletes # {}
    /\ TrieIds(trie) # StoreIds(store)
    /\ TrieIds(trie) \subseteq StoreIds(store)

\* The excludedHashes an honest peer holding peerMsgs publishes for the prefix.
HonestExcluded(prefix) == getSnapshot(peerTrie, prefix).excludedHashes

\* C7: a stored message whose SyncId the trie lost to a messageDeleted event
\* (the delete transaction failed) is in the trie again after the next
\* performSync round with a peer that holds it: the round started with every
\* event handled, took the peer's excludedHashes, met no failure, nothing else
\* mutated storage meanwhile, and its events have been handled.
C7_Reconverges ==
    \A r \in RunIds : \A m \in runs[r].lost \cap failedDeletes :
        (/\ runs[r].pc = "done"
         /\ runs[r].quietStart
         /\ runs[r].clean
         /\ runs[r].excluded = HonestExcluded(runs[r].prefix)
         /\ envOps = runs[r].envAtStart
         /\ events = <<>>
         /\ m \in store /\ m \in peerMsgs)
        => SyncId(m) \in TrieIds(trie)

\* Two performSync calls in succession: the second started after the first had
\* ended and its events were handled, both with the same excludedHashes, and
\* nothing but the two calls has mutated storage since the first started.
Succession ==
    /\ runs[1].pc = "done"
    /\ runs[2].pc # "idle"
    /\ runs[1].quietStart /\ runs[2].quietStart
    /\ runs[2].excluded = runs[1].excluded
    /\ envOps = runs[1].envAtStart

C9_HooksIdempotent ==
    \A m \in AllMsgs :
        /\ handleEvent(handleEvent(trie, MergedEvent(m)), MergedEvent(m))
              = handleEvent(trie, MergedEvent(m))
        /\ handleEvent(handleEvent(trie, DeletedEvent(m)), DeletedEvent(m))
              = handleEvent(trie, DeletedEvent(m))

\* A messageMerged event is about to be handled for a SyncId the trie already
\* holds: initialize inserted the message while its event was waiting.
C9_Witness ==
    /\ events # <<>>
    /\ Head(events).type = "messageMerged"
    /\ SyncId(Head(events).msg) \in TrieIds(trie)

AllEvents == {MergedEvent(m) : m \in AllMsgs} \cup {DeletedEvent(m) : m \in AllMsgs}

Range(f) == {f[i] : i \in DOMAIN f}

\* The calls a performSync call has issued, the pending one included.
IssuedCalls(r) ==
    [i \in 1..Len(runs[r].calls) |-> [op |-> runs[r].calls[i].op, arg |-> runs[r].calls[i].arg]]
    \o (IF InProgress(r) THEN <<[op |-> runs[r].pc, arg |-> Argument(runs[r])]>> ELSE <<>>)

\* The peer's node at prefix p exists and reports at most HASHES_PER_FETCH messages.
Shallow(p) == p \in DOMAIN peerTrie /\ PeerMetadata(p).numMessages <= HASHES_PER_FETCH

\* The peer's node at prefix p exists and reports more than HASHES_PER_FETCH messages.
Deep(p) == p \in DOMAIN peerTrie /\ PeerMetadata(p).numMessages > HASHES_PER_FETCH

\* C11: whenever getSyncMetadataByPrefix(p) answered with a node of at most
\* HASHES_PER_FETCH messages, the next call issued is getSyncIdsByPrefix(p), it
\* is the only getSyncIdsByPrefix(p) of the run, no later metadata call is for a
\* prefix under p, and once it answered, every id the peer returned (held
\* locally or not) is among the missing ids and in the getMessagesByHashes call.
C11_ShallowFetch ==
    \A r \in RunIds : \A i \in 1..Len(runs[r].calls) :
        LET c == runs[r].calls[i]
            iss == IssuedCalls(r)
        IN (c.op = "meta" /\ c.out = "ok" /\ Shallow(c.arg)) =>
              /\ Len(iss) > i
              /\ iss[i + 1].op = "ids" /\ iss[i + 1].arg = c.arg
              /\ Cardinality({j \in 1..Len(iss) : iss[j].op = "ids" /\ iss[j].arg = c.arg}) = 1
              /\ \A j \in (i + 1)..Len(iss) : iss[j].op = "meta" => ~IsPrefixOf(c.arg, iss[j].arg)
              /\ (i < Len(runs[r].calls) /\ runs[r].calls[i + 1].out = "ok") =>
                    /\ runs[r].pc \in {"meta", "ids"} =>
                          Range(PeerIds(c.arg)) \subseteq Range(runs[r].missing)
                    /\ \A k \in (i + 2)..Len(iss) :
                          iss[k].op = "msgs" => Range(PeerIds(c.arg)) \subseteq Range(iss[k].arg)

\* A call has ended whose getMessagesByHashes asked for an id the engine held
\* before the call, returned by a getSyncIdsByPrefix for a node of few messages.
C11_Witness ==
    \E r \in RunIds : \E i, k \in 1..Len(runs[r].calls) :
        /\ runs[r].pc = "done"
        /\ i + 1 < k
        /\ runs[r].calls[i].op = "meta" /\ runs[r].calls[i].out = "ok"
        /\ Shallow(runs[r].calls[i].arg)
        /\ runs[r].calls[i + 1].op = "ids" /\ runs[r].calls[i + 1].out = "ok"
        /\ runs[r].calls[k].op = "msgs"
        /\ Range(PeerIds(runs[r].calls[i].arg)) \subseteq Range(runs[r].calls[k].arg)
        /\ Range(PeerIds(runs[r].calls[i].arg)) \cap StoreIds(visited) # {}

\* The peer's children at p whose hash is not the hash of our child as read
\* when the metadata request was made (an absent child has no hash).
Differing(p, ours) ==
    {q \in DOMAIN PeerMetadata(p).children : OurChildHash(ours, q) # PeerMetadata(p).children[q]}

\* The children of p under which call r issued a metadata or ids request after
\* its i-th call.
ChildrenVisited(r, p, i) ==
    LET iss == IssuedCalls(r) IN
    {Prefix(iss[j].arg, Len(p) + 1) :
        j \in {k \in (i + 1)..Len(iss) : /\ iss[k].op \in {"meta", "ids"}
                                         /\ Len(iss[k].arg) > Len(p)
                                         /\ IsPrefixOf(p, iss[k].arg)}}

\* The divergence walk of call r has ended without an exception.
WalkOver(r) ==
    \/ runs[r].pc \in {"msgs", "merge", "custody", "idRegistry", "signers", "mergeSigners", "retry"}
    \/ runs[r].pc = "done" /\ runs[r].failedAt \notin {"meta", "ids"}

\* C12: whenever getSyncMetadataByPrefix(p) answered with a node of more than
\* HASHES_PER_FETCH messages, the run issues requests only under those of the
\* peer's children that we lack or whose hash differs from ours, a child still
\* to be visited is waiting in the loop, and when the walk has ended
\* getSyncMetadataByPrefix was called for each of those children.
C12_RecursiveFetch ==
    \A r \in RunIds : \A i \in 1..Len(runs[r].calls) :
        LET c == runs[r].calls[i]
            iss == IssuedCalls(r)
        IN (c.op = "meta" /\ c.out = "ok" /\ Deep(c.arg)) =>
              /\ ChildrenVisited(r, c.arg, i) \subseteq Differing(c.arg, c.ours)
              /\ \A q \in Differing(c.arg, c.ours) :
                    \/ \E j \in (i + 1)..Len(iss) : iss[j].op = "meta" /\ iss[j].arg = q
                    \/ ~WalkOver(r) /\ runs[r].pc # "done" /\ q \in Range(runs[r].work)
                    \/ runs[r].pc = "done" /\ runs[r].failedAt \in {"meta", "ids"}

\* The walk of a call has ended; under a node of many messages it descended into
\* a child and passed over another whose hash was the same on both sides.
C12_Witness ==
    \E r \in RunIds : \E i \in 1..Len(runs[r].calls) :
        LET c == runs[r].calls[i] IN
        /\ WalkOver(r)
        /\ c.op = "meta" /\ c.out = "ok" /\ Deep(c.arg)
        /\ Differing(c.arg, c.ours) # {}
        /\ ChildrenVisited(r, c.arg, i) = Differing(c.arg, c.ours)
        /\ DOMAIN PeerMetadata(c.arg).children \ Differing(c.arg, c.ours) # {}

\* The call issued at position i of call r is op(arg), arg a user id.
IssuedFor(r, i, op, fid) ==
    LET iss == IssuedCalls(r) IN i <= Len(iss) /\ iss[i].op = op /\ iss[i].arg = fid

\* C13: after a mergeMessage of the batch answered 412 for message m, the next
\* calls are, each issued once the one before has answered without failure:
\* getCustodyEventByUser(fid), mergeIdRegistryEvent, getAllSignerMessagesByUser(fid),
\* mergeMessages of the signers the peer returned, and mergeMessage(m) again; and
\* when that retry answered ok, m is stored and its SyncId is in the trie as soon
\* as its messageMerged event has been handled.
C13_RecoveryOrder ==
    \A r \in RunIds : \A i \in 1..Len(runs[r].calls) :
        LET cs == runs[r].calls
            n == Len(cs)
            m == cs[i].arg
            iss == IssuedCalls(r)
        IN (cs[i].op = "merge" /\ cs[i].status = "unknown_user") =>
              /\ IssuedFor(r, i + 1, "custody", m.fid)
              /\ (i + 1 <= n /\ cs[i + 1].out = "ok") =>
                    /\ IssuedFor(r, i + 2, "idRegistry", m.fid)
                    /\ (i + 2 <= n /\ cs[i + 2].out # "throw") =>
                          /\ IssuedFor(r, i + 3, "signers", m.fid)
                          /\ (i + 3 <= n /\ cs[i + 3].out = "ok") =>
                                /\ Len(iss) >= i + 4
                                /\ iss[i + 4].op = "mergeSigners"
                                /\ iss[i + 4].arg = PeerSigners(m.fid)
                                /\ (i + 4 <= n /\ cs[i + 4].status = "some_ok") =>
                                      /\ Len(iss) >= i + 5
                                      /\ iss[i + 5].op = "retry"
                                      /\ iss[i + 5].arg = m
                                      /\ (i + 5 <= n /\ cs[i + 5].status = "ok") =>
                                            /\ m \in store
                                            /\ \/ SyncId(m) \in TrieIds(trie)
                                               \/ MergedEvent(m) \in Range(events)

\* A call has ended in which a cast of an unknown user was answered 412, the
\* five recovery calls followed, the retry answered ok, and with all events
\* handled the cast is stored and its SyncId is in the trie.
C13_Witness ==
    \E r \in RunIds : \E i \in 1..Len(runs[r].calls) :
        LET cs == runs[r].calls IN
        /\ runs[r].pc = "done"
        /\ cs[i].op = "merge" /\ cs[i].status = "unknown_user" /\ cs[i].arg.kind = "cast"
        /\ i + 5 <= Len(cs)
        /\ cs[i + 5].op = "retry" /\ cs[i + 5].status = "ok" /\ cs[i + 5].arg = cs[i].arg
        /\ events = <<>>
        /\ cs[i].arg \in store
        /\ SyncId(cs[i].arg) \in TrieIds(trie)

\* C14: while initialize inserts the stored messages, in whatever order the
\* storage engine yields them, the root hash and the items count of the trie
\* are those of the trie built from the same SyncIds in one fixed order.
C14_InsertOrder ==
    envOps = 0 =>
        /\ trie[<<>>].hash = TrieOf(visited)[<<>>].hash
        /\ trie[<<>>].items = TrieOf(visited)[<<>>].items

\* initialize has inserted every message of the network, two of them under a
\* common first byte, and nothing else has touched the trie.
C14_Witness ==
    /\ initialized = "done"
    /\ envOps = 0
    /\ visited = AllMsgs
    /\ trie[<<>>].items = Cardinality(AllMsgs)

\* The prefixes p of at most the length of a timestamp.
TimestampPrefixes ==
    UNION {{Prefix(SyncId(m), n) : n \in 0..TimestampDigits} : m \in AllMsgs}

\* The SyncIds in which our trie and the trie of the messages S differ.
DifferingIds(S) ==
    (TrieIds(trie) \ StoreIds(S)) \cup (StoreIds(S) \ TrieIds(trie))

\* getDivergencePrefix of our trie at our snapshot prefix against the
\* excludedHashes of the snapshot of the trie of S at the same prefix.
DivergenceAgainst(S) ==
    getDivergencePrefix(trie, snapshotPrefix,
                        getSnapshot(TrieOf(S), snapshotPrefix).excludedHashes)

\* C15: for every trie T2 and every prefix p, if our trie and T2 differ, and
\* only in SyncIds that extend p, getDivergencePrefix of our trie against T2's
\* excludedHashes returns a prefix of p.
C15_PrefixOfP ==
    \A S \in SUBSET AllMsgs : \A p \in TimestampPrefixes :
        (DifferingIds(S) # {} /\ \A id \in DifferingIds(S) : IsPrefixOf(p, id))
            => IsPrefixOf(DivergenceAgainst(S), p)

\* C15 as it holds: for every trie T2, getDivergencePrefix of our trie against
\* T2's excludedHashes returns a prefix of our snapshot prefix that every SyncId
\* in which the two tries differ extends; so when they differ, and only in
\* SyncIds that extend p, the returned prefix is a prefix of p or p is a prefix
\* of it, and it is a prefix of p when p is at least as long as the snapshot
\* prefix.
C15_CoversDifferences ==
    \A S \in SUBSET AllMsgs :
        /\ IsPrefixOf(DivergenceAgainst(S), snapshotPrefix)
        /\ \A id \in DifferingIds(S) : IsPrefixOf(DivergenceAgainst(S), id)
        /\ \A p \in TimestampPrefixes :
              (DifferingIds(S) # {} /\ \A id \in DifferingIds(S) : IsPrefixOf(p, id)) =>
                  /\ \/ IsPrefixOf(DivergenceAgainst(S), p)
                     \/ IsPrefixOf(p, DivergenceAgainst(S))
                  /\ Len(p) >= Len(snapshotPrefix) => IsPrefixOf(DivergenceAgainst(S), p)

\* Our trie lacks a message of the peer under a sibling of the snapshot path:
\* the divergence prefix against the peer is one byte long and not the whole
\* snapshot prefix.
C15_Witness ==
    /\ initialized = "done"
    /\ TrieIds(trie) # {}
    /\ DifferingIds(peerMsgs) # {}
    /\ Len(DivergenceAgainst(peerMsgs)) = 1
    /\ Len(snapshotPrefix) = 2

IsMerge(c) == c.op = "merge"

\* The positions of the mergeMessage calls of the batch among the calls issued.
MergePositions(r) == {i \in 1..Len(IssuedCalls(r)) : IssuedCalls(r)[i].op = "merge"}

\* The messages the peer returned to call r; none before getMessagesByHashes
\* has answered.
Returned(r) ==
    LET ks == {k \in 1..Len(runs[r].calls) :
                  runs[r].calls[k].op = "msgs" /\ runs[r].calls[k].out = "ok"}
    IN IF ks = {} THEN <<>> ELSE PeerMessages(runs[r].calls[CHOOSE k \in ks : TRUE].arg)

\* The answered call c ends the recovery of a message.
EndsRecovery(c) ==
    \/ c.op \in {"custody", "signers"} /\ c.out = "err"
    \/ c.op = "mergeSigners" /\ c.status = "all_failed"
    \/ c.op = "retry"

\* C16: the mergeMessage calls of a batch are issued for the messages the peer
\* returned, in the order it returned them, and between the mergeMessage of one
\* message and that of the next lie only the answered calls of the recovery the
\* first triggered, the last of which ended that recovery; when no recovery was
\* triggered the next mergeMessage follows at once.
C16_SequentialMerges ==
    \A r \in RunIds :
        LET iss == IssuedCalls(r)
            cs == runs[r].calls
            merges == SelectSeq(iss, IsMerge)
        IN /\ Len(merges) <= Len(Returned(r))
           /\ \A k \in 1..Len(merges) : merges[k].arg = Returned(r)[k]
           /\ \A i, j \in MergePositions(r) :
                 (i < j /\ \A x \in (i + 1)..(j - 1) : x \notin MergePositions(r)) =>
                    IF cs[i].status = "unknown_user"
                    THEN /\ j > i + 1
                         /\ \A x \in (i + 1)..(j - 1) :
                               cs[x].op \in {"custody", "idRegistry", "signers",
                                             "mergeSigners", "retry"}
                         /\ EndsRecovery(cs[j - 1])
                    ELSE j = i + 1

\* A call has ended after a batch of three messages: the first mergeMessage was
\* answered 412, its recovery ran to the retry, and the other two followed.
C16_Witness ==
    \E r \in RunIds :
        /\ runs[r].pc = "done"
        /\ Len(Returned(r)) = 3
        /\ Cardinality(MergePositions(r)) = 3
        /\ \E i \in MergePositions(r) :
              /\ runs[r].calls[i].status = "unknown_user"
              /\ i + 6 \in MergePositions(r)
              /\ runs[r].calls[i + 5].op = "retry"

\* Call r has left fetchAndMergeMessages normally after the peer returned a batch.
BatchDone(r) ==
    runs[r].pc = "done" /\ runs[r].exit = "ok" /\ Returned(r) # <<>>

\* The k-th mergeMessage call of the batch, as a position of the transcript.
MergePosition(r, k) ==
    CHOOSE i \in MergePositions(r) :
        Cardinality({j \in MergePositions(r) : j <= i}) = k

\* C17: when fetchAndMergeMessages has run through a batch, whatever the merges
\* and recoveries answered, mergeMessage was called for every returned message,
\* there is one recorded result per returned message, and the recovery
\* (beginning with getCustodyEventByUser for the message's fid) was entered
\* after exactly the merges that answered 412; a message whose merge answered
\* anything else has that answer as its result.
C17_BatchNotAborted ==
    \A r \in RunIds :
        LET cs == runs[r].calls
            msgs == Returned(r)
        IN /\ \A x \in 1..Len(cs) :
                 cs[x].op = "custody" =>
                    /\ x > 1
                    /\ cs[x - 1].op = "merge"
                    /\ cs[x - 1].status = "unknown_user"
                    /\ cs[x].arg = cs[x - 1].arg.fid
           /\ BatchDone(r) =>
                 /\ Cardinality(MergePositions(r)) = Len(msgs)
                 /\ Len(runs[r].results) = Len(msgs)
                 /\ \A k \in 1..Len(msgs) :
                       LET i == MergePosition(r, k)
                       IN /\ cs[i].arg = msgs[k]
                          /\ IF cs[i].status = "unknown_user"
                             THEN /\ i < Len(cs)
                                  /\ cs[i + 1].op = "custody"
                                  /\ runs[r].results[k] \in
                                        {"ok", "network_failure", "storage_failure"}
                             ELSE /\ i = Len(cs) \/ cs[i + 1].op = "merge"
                                  /\ runs[r].results[k] = cs[i].status

\* A batch of three has been run through although the recovery of its first
\* message ended in a failure and the merge of its second was refused.
C17_Witness ==
    \E r \in RunIds :
        /\ BatchDone(r)
        /\ Len(runs[r].results) = 3
        /\ runs[r].results[1] \in {"network_failure", "storage_failure"}
        /\ runs[r].results[2] \notin {"ok", "duplicate"}

\* The index, in the batch, of the message being handled at position x of the
\* transcript of call r.
MessageAt(r, x) == Cardinality({j \in MergePositions(r) : j <= x})

\* C18: when the signer merges of a recovery have answered and all failed, the
\* message's result is storage_failure and no retry is issued for it; when one
\* of them succeeded, the next call is the retry of mergeMessage for the
\* original message, it is the only retry for that message, and the message's
\* result is ok when the retry succeeded and storage_failure when it failed.  A
\* retry is issued in no other situation.
C18_SignerMergeOutcome ==
    \A r \in RunIds :
        LET cs == runs[r].calls
            iss == IssuedCalls(r)
            res == runs[r].results
        IN /\ \A x \in 1..Len(cs) :
                 cs[x].op = "mergeSigners" =>
                    LET k == MessageAt(r, x)
                    IN CASE cs[x].status = "all_failed" ->
                              /\ Len(res) >= k /\ res[k] = "storage_failure"
                              /\ x < Len(iss) => iss[x + 1].op = "merge"
                         [] cs[x].status = "some_ok" ->
                              /\ x < Len(iss)
                              /\ iss[x + 1].op = "retry"
                              /\ iss[x + 1].arg = Returned(r)[k]
                              /\ x + 1 < Len(iss) => iss[x + 2].op = "merge"
                              /\ (x + 1 <= Len(cs) /\ cs[x + 1].out # "throw") =>
                                    /\ Len(res) >= k
                                    /\ res[k] = IF cs[x + 1].status = "ok" THEN "ok"
                                                ELSE "storage_failure"
                         [] OTHER -> cs[x].out = "throw"
           /\ \A x \in 1..Len(iss) :
                 iss[x].op = "retry" =>
                    x > 1 /\ cs[x - 1].op = "mergeSigners" /\ cs[x - 1].status = "some_ok"

\* The signer merges of a recovery all failed and the batch went on.
C18_AllFailed ==
    \E r \in RunIds : \E x \in 1..Len(runs[r].calls) :
        /\ runs[r].calls[x].op = "mergeSigners"
        /\ runs[r].calls[x].status = "all_failed"
        /\ x < Len(runs[r].calls)

\* A retry succeeded.
C18_RetryOk ==
    \E r \in RunIds : \E x \in 1..Len(runs[r].calls) :
        runs[r].calls[x].op = "retry" /\ runs[r].calls[x].status = "ok"

\* A signer merge succeeded, the original message was retried, the retry
\* failed, and the message's result is storage_failure.
C18_Witness ==
    \E r \in RunIds : \E x \in 1..Len(runs[r].calls) :
        /\ x > 1
        /\ runs[r].calls[x].op = "retry"
        /\ runs[r].calls[x].status \notin {"ok", "none"}
        /\ runs[r].calls[x - 1].status = "some_ok"
        /\ runs[r].results[MessageAt(r, x)] = "storage_failure"

\* The recovery of the message handled at position x of call r's transcript
\* stopped there: its result is network_failure and every call issued after x
\* is for a later message of the batch, beginning with that message's merge.
RecoveryStoppedAt(r, x) ==
    LET iss == IssuedCalls(r)
        k == MessageAt(r, x)
    IN /\ Len(runs[r].results) >= k
       /\ runs[r].results[k] = "network_failure"
       /\ x < Len(iss) => iss[x + 1].op = "merge" /\ iss[x + 1].arg = Returned(r)[k + 1]
       /\ \A y \in (x + 1)..Len(iss) :
             /\ MessageAt(r, y) > k
             /\ iss[y].op \in {"idRegistry", "mergeSigners", "retry"} =>
                   \E z \in (x + 1)..(y - 1) : iss[z].op = "custody"

\* C19: when getCustodyEventByUser has failed, the message's result is
\* network_failure and the recovery issues no mergeIdRegistryEvent, no signer
\* merge and no retry; when getAllSignerMessagesByUser has failed, the message's
\* result is network_failure and the recovery issues no signer merge and no
\* retry.  Storage merges seen later belong to later messages of the batch.
C19_NetworkFailureStopsRecovery ==
    \A r \in RunIds : \A x \in 1..Len(runs[r].calls) :
        LET c == runs[r].calls[x]
        IN /\ (c.op = "custody" /\ c.out = "err") =>
                 /\ RecoveryStoppedAt(r, x)
                 /\ runs[r].calls[x - 1].op = "merge"
           /\ (c.op = "signers" /\ c.out = "err") =>
                 /\ RecoveryStoppedAt(r, x)
                 /\ runs[r].calls[x - 1].op = "idRegistry"
                 /\ runs[r].calls[x - 2].op = "custody"

\* getAllSignerMessagesByUser failed in a recovery and the batch went on.
C19_SignersFailed ==
    \E r \in RunIds : \E x \in 1..Len(runs[r].calls) :
        /\ runs[r].calls[x].op = "signers"
        /\ runs[r].calls[x].out = "err"
        /\ x < Len(runs[r].calls)

\* getCustodyEventByUser failed in the recovery of the first message of a batch
\* of three, and the call has run through the other two.
C19_Witness ==
    \E r \in RunIds : \E x \in 1..Len(runs[r].calls) :
        /\ runs[r].pc = "done"
        /\ runs[r].calls[x].op = "custody"
        /\ runs[r].calls[x].out = "err"
        /\ MessageAt(r, x) = 1
        /\ Len(runs[r].results) = 3
        /\ runs[r].results[1] = "network_failure"

\* The ids the first n calls of call r's transcript brought back: those of the
\* answered getSyncIdsByPrefix calls, in the order of the calls.
RECURSIVE IdsFetched(_, _)
IdsFetched(r, n) ==
    IF n = 0 THEN <<>>
    ELSE IdsFetched(r, n - 1)
         \o (IF runs[r].calls[n].op = "ids" /\ runs[r].calls[n].out = "ok"
             THEN PeerIds(runs[r].calls[n].arg) ELSE <<>>)

\* The call at position x of call r's transcript is a request of the divergence
\* walk that the peer answered with an error.
WalkFailure(r, x) ==
    runs[r].calls[x].op \in {"meta", "ids"} /\ runs[r].calls[x].out = "err"

\* C20: the ids handed to getMessagesByHashes are those of the answered
\* getSyncIdsByPrefix calls of the walk and no others, so a prefix whose
\* metadata or ids request failed contributes nothing and is not asked about
\* again; and after such a failure below a node the walk had descended into,
\* every differing child of that node that comes after the failed branch still
\* gets its getSyncMetadataByPrefix call (or waits in the loop while the walk is
\* going on).
C20_WalkSurvivesFailure ==
    \A r \in RunIds :
        LET cs == runs[r].calls
            iss == IssuedCalls(r)
        IN /\ \A x \in 1..Len(iss) : iss[x].op = "msgs" => iss[x].arg = IdsFetched(r, x - 1)
           /\ runs[r].pc \in {"meta", "ids"} => runs[r].missing = IdsFetched(r, Len(cs))
           /\ (WalkOver(r) /\ IdsFetched(r, Len(cs)) # <<>>) =>
                 \E x \in 1..Len(iss) : iss[x].op = "msgs"
           /\ \A x \in 1..Len(cs) :
                 WalkFailure(r, x) =>
                    /\ \A y \in (x + 1)..Len(iss) :
                          iss[y].op \in {"meta", "ids"} => ~IsPrefixOf(cs[x].arg, iss[y].arg)
                    /\ \A i \in 1..(x - 1) :
                          (/\ cs[i].op = "meta" /\ cs[i].out = "ok" /\ Deep(cs[i].arg)
                           /\ Len(cs[i].arg) < Len(cs[x].arg)
                           /\ IsPrefixOf(cs[i].arg, cs[x].arg)) =>
                             \A q \in Differing(cs[i].arg, cs[i].ours) :
                                LexLess(Prefix(cs[x].arg, Len(cs[i].arg) + 1), q) =>
                                   \/ \E j \in (x + 1)..Len(iss) :
                                         iss[j].op = "meta" /\ iss[j].arg = q
                                   \/ ~WalkOver(r) /\ runs[r].pc # "done"
                                         /\ q \in Range(runs[r].work)
                                   \/ runs[r].pc = "done" /\ runs[r].failedAt \in {"meta", "ids"}

\* A request of the walk failed for a prefix under which the peer has ids, the
\* walk went on to a sibling whose ids were fetched, and getMessagesByHashes was
\* called with the sibling's ids alone.
C20_Witness ==
    \E r \in RunIds : \E x \in 1..Len(runs[r].calls) :
        /\ WalkFailure(r, x)
        /\ Len(runs[r].calls[x].arg) > 0
        /\ PeerIds(runs[r].calls[x].arg) # <<>>
        /\ \E y \in (x + 1)..Len(runs[r].calls) :
              /\ runs[r].calls[y].op = "ids"
              /\ runs[r].calls[y].out = "ok"
              /\ Len(runs[r].calls[y].arg) = Len(runs[r].calls[x].arg)
              /\ \E z \in (y + 1)..Len(runs[r].calls) :
                    /\ runs[r].calls[z].op = "msgs"
                    /\ runs[r].calls[z].arg = PeerIds(runs[r].calls[y].arg)
                    /\ runs[r].calls[z].arg # <<>>

\* The requests of the divergence walk of every call are for prefixes of at most
\* |SyncId| elements, those waiting in the loops included.
WalkWithinDepth ==
    \A r \in RunIds :
        /\ Len(runs[r].cur) <= IdLength
        /\ \A q \in Range(runs[r].work) : Len(q) <= IdLength

\* C21: the divergence walk never asks about a prefix longer than |SyncId|, and
\* when every awaited call is answered every performSync call that has started
\* ends, in a state where isSyncing is false.
C21_Terminates ==
    /\ []WalkWithinDepth
    /\ \A r \in RunIds : InProgress(r) ~> (runs[r].pc = "done" /\ ~isSyncing)

\* A call is asking for the ids of a leaf: the walk is |SyncId| levels down.
C21_DeepestLevel ==
    \E r \in RunIds : runs[r].pc = "ids" /\ Len(runs[r].cur) = IdLength

\* Against a peer whose nodes report many messages at every level above the
\* leaves, a call that began with an empty store has ended without a failure,
\* having walked down to the leaves and merged the peer's messages, and
\* isSyncing is false.
C21_Witness ==
    /\ bigDepth = IdLength
    /\ visited = {}
    /\ store = peerMsgs
    /\ runs[1].pc = "done" /\ runs[1].exit = "ok" /\ runs[1].clean
    /\ runs[2].pc = "idle"
    /\ ~isSyncing
====
